---- MODULE Spec2Model ----
(***************************************************************************)
(* Signer context and transaction-dispatch path of ai-agent-sonic.         *)
(*                                                                         *)
(* A request task enters SignerContext::with_signer scopes, invokes one    *)
(* tool at a time, and every tool resolves the signer with                 *)
(* SignerContext::current() before it talks to the aggregator, the chain   *)
(* RPC node, the wallet database or the custodial wallet service.          *)
(*                                                                         *)
(* Strings whose content matters (vendor error texts, amounts) are         *)
(* sequences of one-character strings.  A message is a format template     *)
(* with the text substituted for its "{}".                                 *)
(***************************************************************************)
EXTENDS Integers, Sequences, FiniteSets, TLC

\* ---------------------------------------------------------------- bounds
NumTasks == 2          \* request tasks that may run concurrently
NumSigners == 2        \* signer objects handed to with_signer
MaxDepth == 2          \* nesting depth of with_signer scopes
MaxU128 == 25          \* scaled stand-in for u128::MAX = 2^128 - 1
MaxDigits == 2         \* length of the amount strings that are enumerated

\* ------------------------------------------------------ program constants
TruncLen == 300        \* chars().take(300) in the quote error mapping

Tasks == 1..NumTasks
Signers == 1..NumSigners
None == 0

\* ------------------------------------------------------------ text helpers
Min(a, b) == IF a <= b THEN a ELSE b

Rep(c, n) == [i \in 1..n |-> c]

Quote == "\""
Backslash == "\\"

\* e.to_string().chars().take(300).collect::<String>()
Take(s, n) == SubSeq(s, 1, Min(n, Len(s)))

\* <str as Debug>::fmt, as used by "{:#?}": the text between double quotes,
\* with double quotes and backslashes escaped by a backslash.
RECURSIVE EscapeDebug(_)
EscapeDebug(s) ==
    IF Len(s) = 0 THEN <<>>
    ELSE IF Len(s) = 1
    THEN (IF s[1] = Quote \/ s[1] = Backslash THEN <<Backslash, s[1]>> ELSE s)
    ELSE LET h == Len(s) \div 2
         IN  EscapeDebug(SubSeq(s, 1, h)) \o EscapeDebug(SubSeq(s, h + 1, Len(s)))

DebugFmt(s) == <<Quote>> \o EscapeDebug(s) \o <<Quote>>

\* A message: anyhow!(fmt, arg).  Text with no argument has arg = <<>>.
M(f) == [fmt |-> f, arg |-> <<>>]
MA(f, a) == [fmt |-> f, arg |-> a]

Ok(v) == [kind |-> "Ok", val |-> v]
Err(m) == [kind |-> "Err", val |-> m]
Panic(m) == [kind |-> "Panic", val |-> m]
NoResult == [kind |-> "none", val |-> M("")]

\* One external call of an invocation and whether it succeeded.
Call(o, b) == [op |-> o, ok |-> b]

\* What a callee hands back: its result and the external calls it made.
Out(r, c) == [res |-> r, calls |-> c]

IsOk(r) == r.kind = "Ok"

\* ------------------------------------------------------------ amounts
Digits == <<"0", "1", "2", "3", "4", "5", "6", "7", "8", "9">>

IsDigit(c) == \E d \in 1..10 : Digits[d] = c
DigitVal(c) == (CHOOSE d \in 1..10 : Digits[d] = c) - 1

AmountChars == {"0", "1", "3", "+", "-", "x"}
AmountStrings == UNION {[1..n -> AmountChars] : n \in 0..MaxDigits}
Allowances == {0, 1, 13, MaxU128}

ParseErr == 0 - 1

\* The digit loop of u128::from_str: checked_mul(10) then checked_add(digit);
\* an invalid digit or an overflow is an error.
RECURSIVE ParseDigits(_, _)
ParseDigits(s, acc) ==
    IF s = <<>> THEN acc
    ELSE IF ~IsDigit(Head(s)) THEN ParseErr
    ELSE LET m == acc * 10
         IN  IF m > MaxU128 THEN ParseErr
             ELSE LET a == m + DigitVal(Head(s))
                  IN  IF a > MaxU128 THEN ParseErr
                      ELSE ParseDigits(Tail(s), a)

\* str::parse::<u128>(): empty, a lone sign and "-" are errors, one leading
\* "+" is accepted.
ParseU128(s) ==
    IF s = <<>> THEN ParseErr
    ELSE IF Len(s) = 1 /\ (s[1] = "+" \/ s[1] = "-") THEN ParseErr
    ELSE IF s[1] = "+" THEN ParseDigits(Tail(s), 0)
    ELSE ParseDigits(s, 0)

\* bool::to_string
BoolToString(b) == IF b THEN "true" ELSE "false"

\* ------------------------------------------------------------ transactions
Tx(w, o, a) == [what |-> w, owner |-> o, amount |-> a]

\* A base64 string as the two decoders of WalletManager see it: whether
\* base64::decode accepts it, whether bincode::deserialize accepts the bytes,
\* and the transaction the bytes hold.
Enc(b, d, t) == [b64 |-> b, bin |-> d, tx |-> t]

\* util::transaction_to_base64: bincode then base64 of a transaction in memory
transaction_to_base64(tx) == Enc(TRUE, TRUE, tx)

\* base64::decode followed by bincode::deserialize
DecodeTransaction(enc) ==
    IF ~enc.b64 THEN Err(M("base64 decode error"))
    ELSE IF ~enc.bin THEN Err(M("bincode error"))
    ELSE Ok(enc.tx)

\* ---------------------------------------------------- external outcomes
\* What the services outside the process answer during one step.
DbOutcomes == {"ok", "down"}
QueryOutcomes == {"some", "none", "fail"}
HttpOutcomes == {"ok", "sendfail", "status", "badjson"}
RpcOutcomes == {"ok", "fail"}

AllEnvs == [db : DbOutcomes, query : QueryOutcomes, http : HttpOutcomes,
            bcast : HttpOutcomes, local : RpcOutcomes]

\* One record per course a signing call can take: an outcome is drawn only
\* for the services the call gets to ask.
WalletEnvs(withBroadcast) ==
    {e \in AllEnvs :
        /\ e.local = "ok"
        /\ e.db = "down" => e.query = "some"
        /\ e.query # "some" => e.http = "ok"
        /\ (e.http # "ok" \/ ~withBroadcast) => e.bcast = "ok"}

LocalEnvs ==
    {e \in AllEnvs : e.db = "ok" /\ e.query = "some" /\ e.http = "ok" /\ e.bcast = "ok"}

TxHash == M("<tx hash>")

\* ----------------------------------------------------------- WalletManager
\* The wallet lookup both sign_and_send methods start with: connect to the
\* wallet database (expect() on the connection), then query the wallet id.
WalletLookup(env) ==
    IF env.db = "down"
    THEN Out(Panic(M("Failed to connect to database")),
             <<Call("db_connect", FALSE)>>)
    ELSE IF env.query = "fail"
    THEN Out(Err(M("<sqlx error>")),
             <<Call("db_connect", TRUE), Call("db_query", FALSE)>>)
    ELSE IF env.query = "none"
    THEN Out(Err(M("Wallet ID not found for this wallet_pubkey")),
             <<Call("db_connect", TRUE), Call("db_query", TRUE)>>)
    ELSE Out(Ok(M("<wallet id>")),
             <<Call("db_connect", TRUE), Call("db_query", TRUE)>>)

\* One POST: send()?, then the status check with the caller's message, then
\* json()?.
HttpPost(op, outcome, failfmt) ==
    IF outcome = "sendfail" THEN Out(Err(M("<reqwest error>")), <<Call(op, FALSE)>>)
    ELSE IF outcome = "status"
    THEN Out(Err(MA(failfmt, <<"b">>)), <<Call(op, FALSE)>>)
    ELSE IF outcome = "badjson"
    THEN Out(Err(M("<reqwest decode error>")), <<Call(op, FALSE)>>)
    ELSE Out(Ok(TxHash), <<Call(op, TRUE)>>)

WalletManager_sign_and_send_encoded_solana_transaction(encoded_transaction, env) ==
    LET w == WalletLookup(env)
    IN  IF ~IsOk(w.res) THEN w
        ELSE IF ~IsOk(DecodeTransaction(encoded_transaction))
        THEN Out(Ok(M("")), w.calls)
        ELSE LET r == HttpPost("wallet_service", env.http,
                               "Failed to sign transaction: {}")
             IN  Out(r.res, w.calls \o r.calls)

WalletManager_sign_and_send_solana_transaction(transaction, env) ==
    WalletManager_sign_and_send_encoded_solana_transaction(
        transaction_to_base64(transaction), env)

WalletManager_sign_and_send_json_evm_transaction(transaction, env) ==
    LET w == WalletLookup(env)
    IN  IF ~IsOk(w.res) THEN w
        ELSE LET r == HttpPost("wallet_service", env.http,
                               "Failed to send transaction: {}")
             IN  IF ~IsOk(r.res) THEN Out(r.res, w.calls \o r.calls)
                 ELSE LET b == HttpPost("chain_rpc", env.bcast,
                                        "Failed to broadcast transaction: {}")
                      IN  Out(b.res, w.calls \o r.calls \o b.calls)

\* ------------------------------------------------------- signer backends
KindOf(s) ==
    CASE s % 3 = 1 -> "privy"
      [] s % 3 = 2 -> "local_solana"
      [] OTHER     -> "local_evm"

\* The trait methods each backend overrides; the others are the defaults of
\* trait TransactionSigner.
Overrides(s) ==
    CASE KindOf(s) = "privy" ->
            {"address", "pubkey", "solana", "encoded_solana", "evm", "json_evm"}
      [] KindOf(s) = "local_solana" -> {"pubkey", "solana", "encoded_solana"}
      [] OTHER -> {"address", "evm", "json_evm"}

\* A local keypair signs in process and submits to the chain RPC node.
LocalSubmit(env) ==
    IF env.local = "ok" THEN Out(Ok(TxHash), <<Call("chain_rpc", TRUE)>>)
    ELSE Out(Err(M("<rpc error>")), <<Call("chain_rpc", FALSE)>>)

\* TransactionSigner::address and ::pubkey: unimplemented!() by default
address(s) ==
    IF "address" \in Overrides(s) THEN Ok(MA("addr", <<ToString(s)>>))
    ELSE Panic(M("not implemented"))

pubkey(s) ==
    IF "pubkey" \in Overrides(s) THEN Ok(MA("pubkey", <<ToString(s)>>))
    ELSE Panic(M("not implemented"))

\* The outcomes to draw for method m of signer s.
EnvsFor(s, m) ==
    IF m \notin Overrides(s) THEN {CHOOSE e \in LocalEnvs : e.local = "ok"}
    ELSE IF KindOf(s) = "privy" THEN WalletEnvs(m \in {"evm", "json_evm"})
    ELSE LocalEnvs

sign_and_send_solana_transaction(s, tx, env) ==
    IF "solana" \notin Overrides(s)
    THEN Out(Err(M("Solana transactions not supported by this signer")), <<>>)
    ELSE IF KindOf(s) = "privy"
    THEN WalletManager_sign_and_send_solana_transaction(tx, env)
    ELSE LocalSubmit(env)

\* TransactionSigner::sign_and_send_evm_transaction
sign_and_send_evm_transaction(s, tx, env) ==
    IF "evm" \notin Overrides(s)
    THEN Out(Err(M("EVM transactions not supported by this signer")), <<>>)
    ELSE IF KindOf(s) = "privy"
    THEN WalletManager_sign_and_send_json_evm_transaction(tx, env)
    ELSE LocalSubmit(env)

\* The default of the encoded method carries the message of the EVM methods.
sign_and_send_encoded_solana_transaction_evm_text(s, enc, env) ==
    IF "encoded_solana" \notin Overrides(s)
    THEN Out(Err(M("EVM transactions not supported by this signer")), <<>>)
    ELSE IF KindOf(s) = "privy"
    THEN WalletManager_sign_and_send_encoded_solana_transaction(enc, env)
    ELSE IF ~IsOk(DecodeTransaction(enc))
    THEN Out(DecodeTransaction(enc), <<>>)
    ELSE LocalSubmit(env)

sign_and_send_encoded_solana_transaction(s, enc, env) ==
    IF "encoded_solana" \notin Overrides(s)
    THEN Out(Err(M("Solana transactions not supported by this signer")), <<>>)
    ELSE IF KindOf(s) = "privy"
    THEN WalletManager_sign_and_send_encoded_solana_transaction(enc, env)
    ELSE IF ~IsOk(DecodeTransaction(enc))
    THEN Out(DecodeTransaction(enc), <<>>)
    ELSE LocalSubmit(env)

sign_and_send_json_evm_transaction(s, tx, env) ==
    IF "json_evm" \notin Overrides(s)
    THEN Out(Err(M("EVM transactions not supported by this signer")), <<>>)
    ELSE IF KindOf(s) = "privy"
    THEN WalletManager_sign_and_send_json_evm_transaction(tx, env)
    ELSE LocalSubmit(env)

\* ------------------------------------------------------------------ state
VARIABLES
    slot,       \* CURRENT_SIGNER of each task: the signer in scope, or None
    frames,     \* per task, the value each active scope restores when it ends
    active,     \* per task, the signers given to the with_signer calls in progress
    ended,      \* per task, what current() last returned inside the inner scope
                \* that has ended within the present scope, or None
    pc,         \* per task, where its tool invocation stands
    inv,        \* per task, the tool invoked, its arguments and what it read
    owner,      \* per task, the signer current() last returned in the present scope
    calls,      \* per task, the external calls of the invocation, in order
    subs,       \* per task, the transactions handed to a signer, in order
    spawned,    \* per task, spawn_blocking calls of the invocation
    worker,     \* per task, the blocking worker thread of the invocation
    result,     \* per task, what the invocation returned
    vendorErr   \* per task, the error text a vendor answered with

vars == <<slot, frames, active, ended, pc, inv, owner, calls, subs, spawned,
          worker, result, vendorErr>>

scopeVars == <<slot, frames, active, ended>>

NoAddr == M("")
NoTx == Tx("none", None, 0)
NoEnc == Enc(FALSE, FALSE, NoTx)

NoInv == [tool |-> "none", from_chain |-> "", to_chain |-> "",
          input_mint |-> "", output_mint |-> "", to |-> "", amount |-> <<>>,
          token_address |-> "", spender_address |-> "",
          quote |-> [kind |-> "unset", err |-> <<>>, data |-> NoEnc, json |-> FALSE],
          trade |-> [met |-> [jq |-> "", js |-> "", bh |-> ""], res |-> NoResult,
                     calls |-> <<>>],
          allowance |-> ParseErr, from_address |-> NoAddr, to_address |-> NoAddr]

NoWorker == [st |-> "none", signer |-> None, tx |-> NoTx, res |-> NoResult]

\* A transaction handed to a signer method, and what the method returned.
Sub(s, m, e, o, b) ==
    [signer |-> s, method |-> m, tx |-> e, res |-> o.res, calls |-> o.calls, by |-> b]

Init ==
    /\ slot = [t \in Tasks |-> None]
    /\ frames = [t \in Tasks |-> <<>>]
    /\ active = [t \in Tasks |-> <<>>]
    /\ ended = [t \in Tasks |-> None]
    /\ pc = [t \in Tasks |-> "idle"]
    /\ inv = [t \in Tasks |-> NoInv]
    /\ owner = [t \in Tasks |-> None]
    /\ calls = [t \in Tasks |-> <<>>]
    /\ subs = [t \in Tasks |-> <<>>]
    /\ spawned = [t \in Tasks |-> 0]
    /\ worker = [t \in Tasks |-> NoWorker]
    /\ result = [t \in Tasks |-> NoResult]
    /\ vendorErr = [t \in Tasks |-> <<>>]

\* ----------------------------------------------------------- SignerContext
\* CURRENT_SIGNER.scope(signer, f): the task-local takes the signer for as
\* long as f runs and gets its previous value back when f ends.
with_signer(t, s) ==
    /\ pc[t] = "idle"
    /\ Len(frames[t]) < MaxDepth
    /\ frames' = [frames EXCEPT ![t] = Append(@, slot[t])]
    /\ slot' = [slot EXCEPT ![t] = s]
    /\ active' = [active EXCEPT ![t] = Append(@, s)]
    /\ ended' = [ended EXCEPT ![t] = None]
    /\ owner' = [owner EXCEPT ![t] = None]
    /\ UNCHANGED <<pc, inv, calls, subs, spawned, worker, result, vendorErr>>

Front(q) == SubSeq(q, 1, Len(q) - 1)
Last(q) == q[Len(q)]

\* The ending scope leaves its own signer in the task-local.
RestoredStale(t) == slot[t]

\* The value the task-local gets back when the innermost scope of t ends.
Restored(t) == Last(frames[t])

end_scope(t) ==
    /\ pc[t] = "idle"
    /\ frames[t] # <<>>
    /\ slot' = [slot EXCEPT ![t] = Restored(t)]
    /\ frames' = [frames EXCEPT ![t] = Front(@)]
    /\ active' = [active EXCEPT ![t] = Front(@)]
    /\ ended' = [ended EXCEPT ![t] = IF Len(frames[t]) > 1 THEN owner[t] ELSE None]
    /\ owner' = [owner EXCEPT ![t] = None]
    /\ UNCHANGED <<pc, inv, calls, subs, spawned, worker, result, vendorErr>>

\* One signer slot for the whole process instead of one per task.
current_shared(t) == slot[1]

\* SignerContext::current(): CURRENT_SIGNER.get().clone()
current(t) == slot[t]

NoScopePanic ==
    Panic(M("cannot access a task-local storage value without setting it first"))

\* ------------------------------------------------------------ step helpers
\* The invocation of t ends here with result r.
Finish(t, i, o, r, c, sb, v) ==
    /\ pc' = [pc EXCEPT ![t] = "done"]
    /\ inv' = [inv EXCEPT ![t] = i]
    /\ owner' = [owner EXCEPT ![t] = o]
    /\ result' = [result EXCEPT ![t] = r]
    /\ calls' = [calls EXCEPT ![t] = @ \o c]
    /\ subs' = [subs EXCEPT ![t] = @ \o sb]
    /\ vendorErr' = [vendorErr EXCEPT ![t] = v]
    /\ UNCHANGED <<spawned, worker>>
    /\ UNCHANGED scopeVars

\* tokio::task::spawn_blocking(move || ... block_on(signer.sign_and_send_
\* solana_transaction(&mut tx))): the closure owns the signer and the
\* transaction; the invocation goes on to await the join handle at p.
Spawn(t, p, i, o, c, tx) ==
    /\ pc' = [pc EXCEPT ![t] = p]
    /\ inv' = [inv EXCEPT ![t] = i]
    /\ owner' = [owner EXCEPT ![t] = o]
    /\ calls' = [calls EXCEPT ![t] = @ \o c]
    /\ spawned' = [spawned EXCEPT ![t] = @ + 1]
    /\ worker' = [worker EXCEPT ![t] =
                    [st |-> "running", signer |-> o, tx |-> tx, res |-> NoResult]]
    /\ UNCHANGED <<result, subs, vendorErr>>
    /\ UNCHANGED scopeVars

\* The signer the worker thread of t submits with: the one its closure captured.
WorkerSigner(t) == worker[t].signer

\* The closure submits again for as long as the submission fails.
WorkerRetry(r) == IF r.kind = "Err" THEN "running" ELSE "finished"

\* The closure runs block_on once, whatever the submission returns.
WorkerDone(r) == "finished"

\* The worker thread runs the signer's sign_and_send_solana_transaction.
worker_run(t) ==
    /\ worker[t].st = "running"
    /\ \E env \in EnvsFor(WorkerSigner(t), "solana") :
         LET o == sign_and_send_solana_transaction(WorkerSigner(t), worker[t].tx, env)
         IN  /\ worker' = [worker EXCEPT ![t] = [@ EXCEPT !.st = WorkerDone(o.res),
                                                         !.res = o.res]]
             /\ calls' = [calls EXCEPT ![t] = @ \o o.calls]
             /\ subs' = [subs EXCEPT ![t] =
                           Append(@, Sub(WorkerSigner(t), "solana",
                                         transaction_to_base64(worker[t].tx), o, "worker"))]
    /\ UNCHANGED <<pc, inv, owner, result, spawned, vendorErr>>
    /\ UNCHANGED scopeVars

\* The join handle is awaited and its result thrown away.
JoinedDropped(r) == Ok(M(""))

\* The result of the worker is dropped instead of propagated with `??`.
JoinedIgnoreErr(r) == IF r.kind = "Ok" THEN r ELSE Ok(M(""))

\* .await on the join handle, .map_err(Join error), then `??`
Joined(r) ==
    IF r.kind = "Panic" THEN Err(MA("Join error: {:?}", <<"p">>)) ELSE r

\* The harness takes the result: the task is free for its next call.
return(t) ==
    /\ pc[t] = "done"
    /\ pc' = [pc EXCEPT ![t] = "idle"]
    /\ inv' = [inv EXCEPT ![t] = NoInv]
    /\ calls' = [calls EXCEPT ![t] = <<>>]
    /\ subs' = [subs EXCEPT ![t] = <<>>]
    /\ spawned' = [spawned EXCEPT ![t] = 0]
    /\ worker' = [worker EXCEPT ![t] = NoWorker]
    /\ result' = [result EXCEPT ![t] = NoResult]
    /\ vendorErr' = [vendorErr EXCEPT ![t] = <<>>]
    /\ UNCHANGED owner
    /\ UNCHANGED scopeVars

\* ------------------------------------------------------------ Solana tools
Pubkeys == {"So11", "bad"}
\* Pubkey::from_str succeeds
IsPubkey(k) == k = "So11"

FinishJoin(t, r) == Finish(t, inv[t], owner[t], r, <<>>, <<>>, vendorErr[t])

\* transfer_sol up to its spawn_blocking
transfer_sol(t) ==
    /\ pc[t] = "idle"
    /\ \E to \in Pubkeys, mk \in RpcOutcomes :
         LET o == current(t)
             i == [NoInv EXCEPT !.tool = "transfer_sol", !.to = to]
         IN  IF o = None THEN Finish(t, i, o, NoScopePanic, <<>>, <<>>, <<>>)
             ELSE IF ~IsOk(pubkey(o)) THEN Finish(t, i, o, pubkey(o), <<>>, <<>>, <<>>)
             ELSE IF ~IsPubkey(to)
             THEN Finish(t, i, o, Err(M("<ParsePubkeyError>")), <<>>, <<>>, <<>>)
             ELSE IF mk = "fail"
             THEN Finish(t, i, o, Err(M("<create_transfer_sol_tx error>")), <<>>, <<>>, <<>>)
             ELSE Spawn(t, "ts_join", i, o, <<>>, Tx("transfer", o, 0))

\* transfer_sol from the join of its worker to Ok(result)
transfer_sol_join(t) ==
    /\ pc[t] = "ts_join"
    /\ worker[t].st = "finished"
    /\ FinishJoin(t, Joined(worker[t].res))

\* RpcClient::get_account: Ok(account), or Err (no such account, or the node
\* could not be asked)
AccountOutcomes == {"found", "err"}

\* trade::create_ata_if_needed: any error of get_account counts as "no such
\* account"; then the blockhash is fetched and the creating transaction built.
create_ata_if_needed(o, acct, bh) ==
    IF acct = "found"
    THEN Out(Ok(Tx("ata_empty", o, 0)), <<Call("chain_rpc", TRUE)>>)
    ELSE IF bh = "fail"
    THEN Out(Err(M("<rpc error>")),
             <<Call("chain_rpc", FALSE), Call("chain_rpc", FALSE)>>)
    ELSE Out(Ok(Tx("ata_create", o, 0)),
             <<Call("chain_rpc", FALSE), Call("chain_rpc", TRUE)>>)

\* Jupiter::swap can fail on the quote's output mint, on the swap-instructions
\* request (send, status, body) and on converting an instruction.
SwapOutcomes == HttpOutcomes \cup {"badmint", "badix"}

\* What the Jupiter quote endpoint can answer for these mints.
QuoteOutcomes(i) ==
    IF IsPubkey(i.input_mint) /\ IsPubkey(i.output_mint) THEN RpcOutcomes ELSE {"fail"}

\* The outcomes create_trade_transaction can meet: those of calls that are
\* not reached are left at "ok".
TradeOutcome(q, w, h) == [jq |-> q, js |-> w, bh |-> h]
TradeOutcomes(i) ==
    {e \in {TradeOutcome(q, w, h) : q \in QuoteOutcomes(i), w \in SwapOutcomes,
                                    h \in RpcOutcomes} :
        /\ e.jq = "fail" => e.js = "ok"
        /\ e.js # "ok" => e.bh = "ok"}

\* e.to_string() of an anyhow error, put into a "{}" of the next message
Nested(fmt, e) == MA(fmt, <<e.fmt>> \o e.arg)

\* Jupiter::fetch_quote: one GET, `?` on the request and on the body
Jupiter_fetch_quote(jq) ==
    IF jq = "fail"
    THEN Out(Err(M("<reqwest error>")), <<Call("jupiter_quote", FALSE)>>)
    ELSE Out(Ok(M("<quote>")), <<Call("jupiter_quote", TRUE)>>)

\* Jupiter::swap: the quote's output mint is parsed, the swap instructions
\* are requested and converted, the latest blockhash is fetched.
Jupiter_swap(o, js, bh) ==
    IF js = "badmint" THEN Out(Err(M("Invalid output mint")), <<>>)
    ELSE IF js = "sendfail"
    THEN Out(Err(M("<reqwest error>")), <<Call("jupiter_swap", FALSE)>>)
    ELSE IF js = "status"
    THEN Out(Err(MA("Jupiter Swap Error: {}", <<"b">>)), <<Call("jupiter_swap", FALSE)>>)
    ELSE IF js = "badjson"
    THEN Out(Err(MA("Failed to parse swap response: {}", <<"e">>)),
             <<Call("jupiter_swap", FALSE)>>)
    ELSE IF js = "badix"
    THEN Out(Err(M("<convert_instruction_data error>")), <<Call("jupiter_swap", TRUE)>>)
    ELSE IF bh = "fail"
    THEN Out(Err(M("<rpc error>")),
             <<Call("jupiter_swap", TRUE), Call("chain_rpc", FALSE)>>)
    ELSE Out(Ok(Tx("swap", o, 0)),
             <<Call("jupiter_swap", TRUE), Call("chain_rpc", TRUE)>>)

\* The swap is built from a default quote when the quote request failed.
create_trade_transaction_unchecked(o, jq, js, bh) ==
    LET q == Jupiter_fetch_quote(jq)
        w == Jupiter_swap(o, js, bh)
    IN  IF ~IsOk(w.res)
        THEN Out(Err(Nested("Failed to swap: {}", w.res.val)), q.calls \o w.calls)
        ELSE Out(w.res, q.calls \o w.calls)

\* trade::create_trade_transaction: Jupiter::fetch_quote, then Jupiter::swap,
\* each with its map_err and `?`.
create_trade_transaction(o, jq, js, bh) ==
    LET q == Jupiter_fetch_quote(jq)
        w == Jupiter_swap(o, js, bh)
    IN  IF ~IsOk(q.res)
        THEN Out(Err(Nested("Failed to fetch quote: {}", q.res.val)), q.calls)
        ELSE IF ~IsOk(w.res)
        THEN Out(Err(Nested("Failed to swap: {}", w.res.val)), q.calls \o w.calls)
        ELSE Out(w.res, q.calls \o w.calls)

\* perform_jupiter_swap up to its first spawn_blocking
perform_jupiter_swap(t) ==
    /\ pc[t] = "idle"
    /\ \E input_mint \in Pubkeys, output_mint \in Pubkeys,
          acct \in AccountOutcomes, bh \in RpcOutcomes :
         LET o == current(t)
             i == [NoInv EXCEPT !.tool = "perform_jupiter_swap",
                                !.input_mint = input_mint, !.output_mint = output_mint]
             ata == create_ata_if_needed(o, acct, bh)
         IN  IF o = None THEN Finish(t, i, o, NoScopePanic, <<>>, <<>>, <<>>)
             ELSE IF ~IsOk(pubkey(o)) THEN Finish(t, i, o, pubkey(o), <<>>, <<>>, <<>>)
             ELSE IF ~IsPubkey(output_mint)
             THEN Finish(t, i, o, Err(M("Invalid output mint")), <<>>, <<>>, <<>>)
             ELSE IF ~IsOk(ata.res)
             THEN Finish(t, i, o, ata.res, ata.calls, <<>>, <<>>)
             ELSE Spawn(t, "jup_join1", i, o, ata.calls, ata.res.val)

\* perform_jupiter_swap from the join of the first worker, through
\* create_trade_transaction, to its second spawn_blocking
perform_jupiter_swap_trade(t) ==
    /\ pc[t] = "jup_join1"
    /\ worker[t].st = "finished"
    /\ IF ~IsOk(Joined(worker[t].res))
       THEN FinishJoin(t, Joined(worker[t].res))
       ELSE \E e \in TradeOutcomes(inv[t]) :
              LET tr == create_trade_transaction(owner[t], e.jq, e.js, e.bh)
                  i == [inv[t] EXCEPT !.trade = [met |-> e, res |-> tr.res,
                                                 calls |-> tr.calls]]
              IN  IF ~IsOk(tr.res)
                  THEN Finish(t, i, owner[t], tr.res, tr.calls, <<>>, vendorErr[t])
                  ELSE Spawn(t, "jup_join2", i, owner[t], tr.calls, tr.res.val)

\* perform_jupiter_swap from the join of the second worker to Ok(result)
perform_jupiter_swap_join(t) ==
    /\ pc[t] = "jup_join2"
    /\ worker[t].st = "finished"
    /\ FinishJoin(t, Joined(worker[t].res))

\* get_public_key: Ok(SignerContext::current().await.pubkey())
get_public_key(t) ==
    /\ pc[t] = "idle"
    /\ LET o == current(t)
           i == [NoInv EXCEPT !.tool = "get_public_key"]
       IN  IF o = None THEN Finish(t, i, o, NoScopePanic, <<>>, <<>>, <<>>)
           ELSE Finish(t, i, o, pubkey(o), <<>>, <<>>, <<>>)

\* ------------------------------------------------------- cross-chain tools
Chains == {"sol", "arb", "eth", "SOL"}

\* Error texts a vendor may answer with: short, exactly as long as the
\* truncation limit, longer, and with characters Debug escapes.
VendorErrors ==
    {Rep("e", 1), Rep("e", TruncLen), Rep("e", TruncLen + 1),
     <<"a", Quote>>, <<Backslash>>}

\* The data field of a Solana transaction request as the decoders see it.
EncShapes ==
    {Enc(FALSE, FALSE, NoTx), Enc(TRUE, FALSE, NoTx), Enc(TRUE, TRUE, Tx("lifi", None, 0))}

\* What LiFi::get_quote returns: an error, or a quote with no transaction
\* request, a Solana one (data) or an EVM one (json: to_json_rpc succeeds).
QuoteReply(k, e, d, j) == [kind |-> k, err |-> e, data |-> d, json |-> j]

QuoteReplies ==
    {QuoteReply("fail", e, NoEnc, FALSE) : e \in VendorErrors}
    \cup {QuoteReply("none", <<>>, NoEnc, FALSE)}
    \cup {QuoteReply("solana", <<>>, d, FALSE) : d \in EncShapes}
    \cup {QuoteReply("evm", <<>>, NoEnc, j) : j \in BOOLEAN}

\* Only the listed EVM chain gets the EVM address.
AddressForListed(o, chain) == IF chain = "arb" THEN address(o) ELSE pubkey(o)

\* if chain == "sol" { signer.pubkey() } else { signer.address() }
AddressFor(o, chain) == IF chain = "sol" THEN pubkey(o) ELSE address(o)

\* The whole error text, with no take(300).
MapQuoteErrWhole(e) == MA("{}", DebugFmt(e))

\* .map_err(|e| anyhow!("{:#?}", e.to_string().chars().take(300).collect::<String>()))
MapQuoteErr(e) == MA("{}", DebugFmt(Take(e, TruncLen)))

\* common::wrap_unsafe runs the closure on another task and hands its result
\* back; of a closure that panics the caller sees the panic or an error.
WrapOutcomes == {"propagate", "error"}
WrapUnsafe(r, wu) ==
    IF r.kind = "Panic" /\ wu = "error" THEN Err(M("<wrap_unsafe error>")) ELSE r

\* Every transaction request goes to the EVM method.
MethodForEvmOnly(q) == "json_evm"

\* transaction_request.is_solana() picks the signer method.
MethodFor(q) == IF q.kind = "solana" THEN "encoded_solana" ELSE "json_evm"

\* The quote is executed as multichain_swap would execute it.
SummaryExecutes(o, q) ==
    IF q.kind \in {"solana", "evm"}
    THEN LET env == CHOOSE e \in EnvsFor(o, MethodFor(q)) : TRUE
             out == IF MethodFor(q) = "encoded_solana"
                    THEN sign_and_send_encoded_solana_transaction(o, q.data, env)
                    ELSE sign_and_send_json_evm_transaction(o, Tx("lifi", None, 0), env)
         IN  [res |-> Ok(M("<quote summary>")), calls |-> out.calls,
              subs |-> <<Sub(o, MethodFor(q), q.data, out, "task")>>]
    ELSE [res |-> Ok(M("<quote summary>")), calls |-> <<>>, subs |-> <<>>]

\* Ok(quote.summary()): the quote is turned into JSON and returned; its
\* transaction request, if any, is not used.
Summary(o, q) == [res |-> Ok(M("<quote summary>")), calls |-> <<>>, subs |-> <<>>]

get_multichain_quote(t) ==
    /\ pc[t] = "idle"
    /\ \E from_chain \in Chains, to_chain \in Chains, q \in QuoteReplies :
         LET o == current(t)
             fa == AddressFor(o, from_chain)
             ta == AddressFor(o, to_chain)
             i0 == [NoInv EXCEPT !.tool = "get_multichain_quote",
                                 !.from_chain = from_chain, !.to_chain = to_chain]
             i == [i0 EXCEPT !.from_address = fa.val, !.to_address = ta.val,
                             !.quote = q]
         IN  IF o = None THEN Finish(t, i0, o, NoScopePanic, <<>>, <<>>, <<>>)
             ELSE IF ~IsOk(fa) THEN Finish(t, i0, o, fa, <<>>, <<>>, <<>>)
             ELSE IF ~IsOk(ta) THEN Finish(t, i0, o, ta, <<>>, <<>>, <<>>)
             ELSE IF q.kind = "fail"
             THEN Finish(t, i, o, Err(MapQuoteErr(q.err)),
                         <<Call("lifi_quote", FALSE)>>, <<>>, q.err)
             ELSE Finish(t, i, o, Summary(o, q).res,
                         <<Call("lifi_quote", TRUE)>> \o Summary(o, q).calls,
                         Summary(o, q).subs, <<>>)

\* A quote without a transaction request is executed like one with a request.
HasRequestAny(q) == q.kind # "fail"

\* match quote.transaction_request { Some(transaction_request) => .. }
HasRequest(q) == q.kind \in {"solana", "evm"}

multichain_swap(t) ==
    /\ pc[t] = "idle"
    /\ \E from_chain \in Chains, to_chain \in Chains, q \in QuoteReplies :
         LET o == current(t)
             fa == AddressFor(o, from_chain)
             ta == AddressFor(o, to_chain)
             i0 == [NoInv EXCEPT !.tool = "multichain_swap",
                                 !.from_chain = from_chain, !.to_chain = to_chain]
             i == [i0 EXCEPT !.from_address = fa.val, !.to_address = ta.val,
                             !.quote = q]
             okq == <<Call("lifi_quote", TRUE)>>
         IN  IF o = None THEN Finish(t, i0, o, NoScopePanic, <<>>, <<>>, <<>>)
             ELSE IF ~IsOk(fa) THEN Finish(t, i0, o, fa, <<>>, <<>>, <<>>)
             ELSE IF ~IsOk(ta) THEN Finish(t, i0, o, ta, <<>>, <<>>, <<>>)
             ELSE IF q.kind = "fail"
             THEN Finish(t, i, o, Err(MapQuoteErr(q.err)),
                         <<Call("lifi_quote", FALSE)>>, <<>>, q.err)
             ELSE IF ~HasRequest(q)
             THEN Finish(t, i, o, Err(M("No transaction request")), okq, <<>>, <<>>)
             ELSE IF q.kind = "evm" /\ ~q.json
             THEN Finish(t, i, o, Err(M("<to_json_rpc error>")), okq, <<>>, <<>>)
             ELSE \E env \in EnvsFor(o, MethodFor(q)), wu \in WrapOutcomes :
                    LET out == IF MethodFor(q) = "encoded_solana"
                               THEN sign_and_send_encoded_solana_transaction(o, q.data, env)
                               ELSE sign_and_send_json_evm_transaction(
                                        o, Tx("lifi", None, 0), env)
                        tx == IF MethodFor(q) = "encoded_solana"
                              THEN q.data ELSE Tx("lifi", None, 0)
                    IN  /\ wu = "error" => out.res.kind = "Panic"
                        /\ Finish(t, i, o, WrapUnsafe(out.res, wu), okq \o out.calls,
                                  <<Sub(o, MethodFor(q), tx, out, "task")>>, <<>>)

AllowanceReplies == Allowances \cup {ParseErr}

\* allowance > amount
ApprovedStrict(allowance, amount) == allowance > amount

\* allowance >= amount
Approved(allowance, amount) == allowance >= amount

check_approval(t) ==
    /\ pc[t] = "idle"
    /\ \E amount \in AmountStrings, al \in AllowanceReplies :
         LET o == current(t)
             i0 == [NoInv EXCEPT !.tool = "check_approval", !.amount = amount]
             i == [i0 EXCEPT !.allowance = al]
             okc == <<Call("chain_rpc", TRUE)>>
         IN  IF o = None THEN Finish(t, i0, o, NoScopePanic, <<>>, <<>>, <<>>)
             ELSE IF ~IsOk(address(o)) THEN Finish(t, i0, o, address(o), <<>>, <<>>, <<>>)
             ELSE IF al = ParseErr
             THEN Finish(t, i0, o, Err(M("<rpc error>")),
                         <<Call("chain_rpc", FALSE)>>, <<>>, <<>>)
             ELSE IF ParseU128(amount) = ParseErr
             THEN Finish(t, i, o, Err(M("Invalid amount")), okc, <<>>, <<>>)
             ELSE Finish(t, i, o, Ok(M(BoolToString(Approved(al, ParseU128(amount))))),
                         okc, <<>>, <<>>)

\* ERC-20 contracts and spenders a caller may name.
TokenAddresses == {"0xUSDC", "0xWETH"}
SpenderAddresses == {"0xLiFi", "0xUni"}

\* approvals::create_approval_transaction: the JSON of an approve(spender,
\* amount) call on the token contract, sent from the owner's address.
create_approval_transaction(token_address, spender_address, amount, owner_address) ==
    [what |-> "approve", owner |-> owner_address, amount |-> amount,
     token |-> token_address, spender |-> spender_address]

approve_token(t) ==
    /\ pc[t] = "idle"
    /\ \E token_address \in TokenAddresses, spender_address \in SpenderAddresses,
          amount \in AmountStrings, mk \in RpcOutcomes :
         LET o == current(t)
             i == [NoInv EXCEPT !.tool = "approve_token", !.amount = amount,
                                !.token_address = token_address,
                                !.spender_address = spender_address]
             tx == create_approval_transaction(token_address, spender_address,
                                               ParseU128(amount), address(o).val)
         IN  IF o = None THEN Finish(t, i, o, NoScopePanic, <<>>, <<>>, <<>>)
             ELSE IF ~IsOk(address(o)) THEN Finish(t, i, o, address(o), <<>>, <<>>, <<>>)
             ELSE IF ParseU128(amount) = ParseErr
             THEN Finish(t, i, o, Err(M("<ParseIntError>")), <<>>, <<>>, <<>>)
             ELSE IF mk = "fail"
             THEN Finish(t, i, o, Err(M("<create_approval_transaction error>")),
                         <<>>, <<>>, <<>>)
             ELSE \E env \in EnvsFor(o, "json_evm"), wu \in WrapOutcomes :
                    LET out == sign_and_send_json_evm_transaction(o, tx, env)
                        r == WrapUnsafe(out.res, wu)
                    IN  /\ wu = "error" => out.res.kind = "Panic"
                        /\ Finish(t, i, o, IF IsOk(r) THEN Ok(M("Approved")) ELSE r,
                                  out.calls, <<Sub(o, "json_evm", tx, out, "task")>>, <<>>)

\* ------------------------------------------------------- user authentication
Statuses == {<<"404 Not Found">>, <<"500 Internal Server Error">>}

TokenReplies == {<<>>} \cup VendorErrors
UserReplies == {"ok", "sendfail", "status", "badtext", "badjson"}

\* WalletManager::validate_access_token: the key is parsed, the token decoded
\* (tok is the decoder's error text, empty when it accepts the token).
validate_access_token(key, tok) ==
    IF key = "fail" THEN Err(M("<jsonwebtoken key error>"))
    ELSE IF tok # <<>> THEN Err(M("Failed to authenticate"))
    ELSE Ok(M("<claims>"))

\* WalletManager::get_user_by_id
get_user_by_id(usr, status) ==
    IF usr = "sendfail" THEN Err(M("<reqwest error>"))
    ELSE IF usr = "status" THEN Err(MA("Failed to get user data: {}", status))
    ELSE IF usr = "badtext" THEN Err(M("<reqwest decode error>"))
    ELSE IF usr = "badjson" THEN Err(M("<serde_json error>"))
    ELSE Ok(M("<user>"))

\* find_wallet for "solana", then for "ethereum"
FindWallets(linked) ==
    IF "solana" \notin linked
    THEN Err(MA("Could not find a delegated {} wallet", <<"solana">>))
    ELSE IF "ethereum" \notin linked
    THEN Err(MA("Could not find a delegated {} wallet", <<"ethereum">>))
    ELSE Ok(M("<session>"))

\* WalletManager::authenticate_user, before the request gets its signer
authenticate_user(t) ==
    /\ pc[t] = "idle"
    /\ frames[t] = <<>>
    /\ \E key \in RpcOutcomes, tok \in TokenReplies, usr \in UserReplies,
          status \in Statuses, body \in VendorErrors,
          linked \in SUBSET {"solana", "ethereum"} :
         LET i == [NoInv EXCEPT !.tool = "authenticate_user"]
             c == validate_access_token(key, tok)
             u == get_user_by_id(usr, status)
             uc == <<Call("privy_user", IsOk(u))>>
         IN  IF ~IsOk(c)
             THEN Finish(t, i, owner[t], c, <<>>, <<>>, IF key = "ok" THEN tok ELSE <<>>)
             ELSE IF ~IsOk(u)
             THEN Finish(t, i, owner[t], u, uc, <<>>, IF usr = "status" THEN body ELSE <<>>)
             ELSE Finish(t, i, owner[t], FindWallets(linked), uc, <<>>, <<>>)

\* --------------------------------------------- one request task, every tool
SoloTasks == {1}

Next ==
    \E t \in SoloTasks :
        \/ \E s \in Signers : with_signer(t, s)
        \/ end_scope(t)
        \/ authenticate_user(t)
        \/ get_public_key(t)
        \/ get_multichain_quote(t)
        \/ multichain_swap(t)
        \/ check_approval(t)
        \/ approve_token(t)
        \/ transfer_sol(t)
        \/ transfer_sol_join(t)
        \/ perform_jupiter_swap(t)
        \/ perform_jupiter_swap_trade(t)
        \/ perform_jupiter_swap_join(t)
        \/ worker_run(t)
        \/ return(t)

Spec == Init /\ [][Next]_vars

\* -------------------------------------- the signer methods, called directly
\* One signer of each backend.
Backends == {1, 2, 3}
Methods == {"solana", "evm", "encoded_solana", "json_evm"}

\* A caller takes the current signer and calls one of its four
\* sign_and_send methods.
sign_and_send(t) ==
    /\ pc[t] = "idle"
    /\ \E m \in Methods, enc \in EncShapes :
         LET o == current(t)
             i == [NoInv EXCEPT !.tool = "sign_and_send"]
             tx == Tx("direct", o, 0)
         IN  IF o = None THEN Finish(t, i, o, NoScopePanic, <<>>, <<>>, <<>>)
             ELSE \E env \in EnvsFor(o, m) :
                    LET out == CASE m = "solana" ->
                                      sign_and_send_solana_transaction(o, tx, env)
                                 [] m = "evm" ->
                                      sign_and_send_evm_transaction(o, tx, env)
                                 [] m = "encoded_solana" ->
                                      sign_and_send_encoded_solana_transaction(o, enc, env)
                                 [] OTHER ->
                                      sign_and_send_json_evm_transaction(o, tx, env)
                    IN  Finish(t, i, o, out.res, out.calls,
                               <<Sub(o, m, IF m = "encoded_solana" THEN enc ELSE tx,
                                     out, "task")>>, <<>>)

NextSigner ==
    \E t \in SoloTasks :
        \/ \E s \in Backends : with_signer(t, s)
        \/ end_scope(t)
        \/ sign_and_send(t)
        \/ return(t)

SpecSigner == Init /\ [][NextSigner]_vars

\* ------------------------------------- concurrent requests, Solana tools
\* Every request runs under one with_signer scope of its own.
NextConc ==
    \E t \in Tasks :
        \/ \E s \in Signers : frames[t] = <<>> /\ with_signer(t, s)
        \/ end_scope(t)
        \/ transfer_sol(t)
        \/ transfer_sol_join(t)
        \/ perform_jupiter_swap(t)
        \/ perform_jupiter_swap_trade(t)
        \/ perform_jupiter_swap_join(t)
        \/ worker_run(t)
        \/ return(t)

SpecConc == Init /\ [][NextConc]_vars

\* ================================================================ claims
InScope(t) == active[t] # <<>>
Done(t, tool) == pc[t] = "done" /\ inv[t].tool = tool

\* C1: inside with_signer(s, f) every current() of f on that task returns s;
\* with nested scopes the innermost signer is returned, and once the inner
\* scope has ended the outer one is returned again.
C1_CurrentIsInnermost ==
    \A t \in Tasks :
        (pc[t] # "idle" /\ InScope(t)) => owner[t] = Last(active[t])

\* C1 witness: inside an inner scope current() returned a signer other than
\* the outer one; that scope has ended, and a tool called in the outer scope
\* has got the outer signer again.
C1_Witness ==
    \E t \in Tasks :
        /\ pc[t] = "done" /\ Len(active[t]) = 1
        /\ ended[t] # None /\ ended[t] # active[t][1]
        /\ owner[t] = active[t][1]

\* C2: whatever the interleaving of concurrent requests, every transaction an
\* invocation submits is submitted with the signer of its own request, on the
\* worker thread too: the worker holds the signer that the request task
\* resolved before spawning.
C2_OwnSigner ==
    \A t \in Tasks :
        /\ \A k \in 1..Len(subs[t]) : InScope(t) /\ subs[t][k].signer = Last(active[t])
        /\ worker[t].st # "none" => (InScope(t) /\ worker[t].signer = Last(active[t]))

\* C2 witness: two requests under different signers are in flight together,
\* one in transfer_sol and one in perform_jupiter_swap, and the worker thread
\* of each has submitted.
C2_Witness ==
    \E t \in Tasks, u \in Tasks :
        /\ t # u /\ InScope(t) /\ InScope(u) /\ Last(active[t]) # Last(active[u])
        /\ inv[t].tool = "transfer_sol" /\ inv[u].tool = "perform_jupiter_swap"
        /\ subs[t] # <<>> /\ subs[t][1].by = "worker"
        /\ Len(subs[u]) = 2 /\ subs[u][2].by = "worker"

\* The submissions of t that reach WalletManager::sign_and_send_encoded_
\* solana_transaction: those of a custodial signer, with a Solana transaction.
WalletSolanaSubs(t) ==
    {k \in 1..Len(subs[t]) :
        KindOf(subs[t][k].signer) = "privy" /\ subs[t][k].method \in {"solana", "encoded_solana"}}

WalletSubs(t) == {k \in 1..Len(subs[t]) : KindOf(subs[t][k].signer) = "privy"}

\* C3: sign_and_send_encoded_solana_transaction returns Ok only when the
\* wallet service accepted the transaction, and every failure on the way,
\* an undecodable transaction included, comes back as Err.
C3_OkOnlyWhenAccepted ==
    \A t \in Tasks : \A k \in WalletSolanaSubs(t) :
        LET sb == subs[t][k]
        IN  /\ sb.res.kind = "Ok" =>
                (sb.calls # <<>> /\ Last(sb.calls) = Call("wallet_service", TRUE))
            /\ ~IsOk(DecodeTransaction(sb.tx)) => sb.res.kind = "Err"

\* C4: when the wallet database cannot be reached, the two sign_and_send
\* methods return Err, do not panic and send nothing to the wallet service.
C4_DbDownIsErr ==
    \A t \in Tasks : \A k \in WalletSubs(t) :
        LET sb == subs[t][k]
        IN  (\E j \in 1..Len(sb.calls) : sb.calls[j] = Call("db_connect", FALSE)) =>
                /\ sb.res.kind = "Err"
                /\ \A j \in 1..Len(sb.calls) : sb.calls[j].op # "wallet_service"

\* C5 as stated: an invocation hands at most one transaction to the signer.
C5_AtMostOneSubmission ==
    \A t \in Tasks : Len(subs[t]) <= 1

\* C5 amended: an invocation hands at most one transaction to the signer,
\* except perform_jupiter_swap, which hands over at most two (the token
\* account transaction, then the swap).
C5_AtMostOneOrTwo ==
    \A t \in Tasks :
        /\ Len(subs[t]) <= (IF inv[t].tool = "perform_jupiter_swap" THEN 2 ELSE 1)
        /\ Len(subs[t]) = 2 =>
              (subs[t][1].tx.tx.what \in {"ata_create", "ata_empty"}
               /\ subs[t][2].tx.tx.what = "swap")

\* C5 witness: perform_jupiter_swap has returned Ok after two submissions.
C5_Witness ==
    \E t \in Tasks :
        /\ Done(t, "perform_jupiter_swap") /\ result[t].kind = "Ok"
        /\ Len(subs[t]) = 2

\* C6: no retry and no recovery: a failed external call is the last external
\* call of its invocation, and the invocation ends with an error.
C6_FailureEndsInvocation ==
    \A t \in Tasks : \A k \in 1..Len(calls[t]) :
        ~calls[t][k].ok =>
            /\ k = Len(calls[t])
            /\ pc[t] = "done" => result[t].kind = "Err"

\* C7 as stated: an invocation spawns at most one blocking worker task.
C7_AtMostOneWorker ==
    \A t \in Tasks : spawned[t] <= 1

\* C7 amended: an invocation spawns at most one blocking worker task, except
\* perform_jupiter_swap, which spawns at most two, the second only after the
\* first has finished and its submission succeeded.
C7_WorkersOneAfterTheOther ==
    \A t \in Tasks :
        /\ spawned[t] <= (IF inv[t].tool = "perform_jupiter_swap" THEN 2 ELSE 1)
        /\ spawned[t] = 2 => (subs[t] # <<>> /\ subs[t][1].res.kind = "Ok")
        /\ spawned[t] > 0 => inv[t].tool \in {"transfer_sol", "perform_jupiter_swap"}

\* C7 witness: the second worker of perform_jupiter_swap is running.
C7_Witness ==
    \E t \in Tasks :
        /\ inv[t].tool = "perform_jupiter_swap" /\ spawned[t] = 2
        /\ worker[t].st = "running"

\* C8: an invocation made inside a with_signer scope completes with exactly
\* one result, Ok or Err, whatever the inputs and the external outcomes.
C8_CompletesWithResult ==
    \A t \in Tasks :
        (pc[t] = "done" /\ InScope(t)) => result[t].kind \in {"Ok", "Err"}

\* Undoes the escaping of Debug: a backslash stands for the character after it.
RECURSIVE UnescapeRec(_)
UnescapeRec(s) ==
    IF s = <<>> THEN <<>>
    ELSE IF Head(s) = Backslash /\ Len(s) >= 2
    THEN <<s[2]>> \o UnescapeRec(SubSeq(s, 3, Len(s)))
    ELSE <<Head(s)>> \o UnescapeRec(Tail(s))

Unescape(s) ==
    IF \A k \in 1..Len(s) : s[k] # Backslash THEN s ELSE UnescapeRec(s)

Specials(s) == Cardinality({k \in 1..Len(s) : s[k] = Quote \/ s[k] = Backslash})

\* The invocations of C9: a vendor answered with an error text.
VendorFailure(t, tools) ==
    pc[t] = "done" /\ inv[t].tool \in tools /\ vendorErr[t] # <<>>

\* C9 as stated: the error returned to the caller carries the vendor's error
\* text unchanged, neither truncated nor replaced.
C9_VendorTextUnchanged ==
    \A t \in Tasks :
        VendorFailure(t, {"get_multichain_quote", "multichain_swap", "authenticate_user"}) =>
            (result[t].kind = "Err" /\ result[t].val.arg = vendorErr[t])

\* C9 amended: of a failed aggregator quote the caller gets the first 300
\* characters of the vendor's text, in double quotes with the quotes and
\* backslashes inside escaped; a token the decoder rejects gives the fixed
\* message "Failed to authenticate"; a failed user lookup gives "Failed to get
\* user data: " with the HTTP status and without the response body.
C9_VendorTextAsMapped ==
    \A t \in Tasks :
        /\ VendorFailure(t, {"get_multichain_quote", "multichain_swap"}) =>
              LET m == result[t].val.arg
                  n == Min(Len(vendorErr[t]), TruncLen)
                  head == SubSeq(vendorErr[t], 1, n)
              IN  /\ result[t].kind = "Err" /\ result[t].val.fmt = "{}"
                  /\ Len(m) = n + Specials(head) + 2
                  /\ m[1] = Quote /\ m[Len(m)] = Quote
                  /\ Unescape(SubSeq(m, 2, Len(m) - 1)) = head
        /\ VendorFailure(t, {"authenticate_user"}) =>
              /\ result[t].kind = "Err"
              /\ \/ result[t].val = M("Failed to authenticate")
                 \/ /\ result[t].val.fmt = "Failed to get user data: {}"
                    /\ result[t].val.arg \in Statuses

\* C9 witness: multichain_swap has returned the error of a quote whose vendor
\* text is longer than 300 characters.
C9_Witness ==
    \E t \in Tasks :
        /\ VendorFailure(t, {"multichain_swap"})
        /\ Len(vendorErr[t]) > TruncLen /\ result[t].kind = "Err"

\* The number a decimal string stands for, or ParseErr if it is no string of
\* digits with at most one leading "+".
RECURSIVE DecimalValue(_)
DecimalValue(s) ==
    IF Len(s) = 0 THEN 0
    ELSE 10 * DecimalValue(SubSeq(s, 1, Len(s) - 1)) + DigitVal(s[Len(s)])

AmountValue(s) ==
    LET d == IF s # <<>> /\ s[1] = "+" THEN Tail(s) ELSE s
    IN  IF d # <<>> /\ (\A k \in 1..Len(d) : IsDigit(d[k])) /\ DecimalValue(d) <= MaxU128
        THEN DecimalValue(d)
        ELSE ParseErr

\* C10: check_approval returns "true" if the allowance read from the chain is
\* at least the amount and "false" otherwise, for every allowance and every
\* amount that is an unsigned 128-bit number, and it submits no transaction.
C10_CheckApproval ==
    \A t \in Tasks :
        Done(t, "check_approval") =>
            /\ subs[t] = <<>> /\ spawned[t] = 0
            /\ (inv[t].allowance # ParseErr /\ AmountValue(inv[t].amount) # ParseErr) =>
                  result[t] = Ok(M(IF inv[t].allowance >= AmountValue(inv[t].amount)
                                   THEN "true" ELSE "false"))

\* C10 witness: check_approval has answered "true" for an allowance equal to
\* the amount, written with a leading "+".
C10_Witness ==
    \E t \in Tasks :
        /\ Done(t, "check_approval")
        /\ inv[t].amount = <<"+", "1">> /\ inv[t].allowance = 1
        /\ result[t] = Ok(M("true"))

\* C11: approve_token returns Ok("Approved") only if an approval transaction
\* for exactly the given token, spender and amount, with the current signer's
\* EVM address as owner, was signed and sent successfully; if the amount is
\* no unsigned 128-bit number or the submission fails it returns Err, and in
\* the unparsable case no transaction is created or submitted.
C11_ApproveToken ==
    \A t \in Tasks :
        (Done(t, "approve_token") /\ InScope(t)) =>
            /\ IsOk(result[t]) =>
                  /\ result[t] = Ok(M("Approved"))
                  /\ Len(subs[t]) = 1
                  /\ subs[t][1].method = "json_evm"
                  /\ subs[t][1].signer = Last(active[t])
                  /\ IsOk(subs[t][1].res)
                  /\ subs[t][1].tx =
                        [what |-> "approve",
                         owner |-> address(Last(active[t])).val,
                         amount |-> AmountValue(inv[t].amount),
                         token |-> inv[t].token_address,
                         spender |-> inv[t].spender_address]
            /\ AmountValue(inv[t].amount) = ParseErr =>
                  result[t].kind = "Err" /\ subs[t] = <<>>
            /\ (subs[t] # <<>> /\ ~IsOk(subs[t][1].res)) => result[t].kind = "Err"

\* C12: get_multichain_quote only quotes: whatever its input and whatever the
\* aggregator answers, a quote with a transaction request included, it hands
\* no transaction to a signer method, spawns nothing and makes no external
\* call but the quote request.
C12_QuoteNeverExecutes ==
    \A t \in Tasks :
        Done(t, "get_multichain_quote") =>
            /\ subs[t] = <<>> /\ spawned[t] = 0
            /\ \A k \in 1..Len(calls[t]) : calls[t][k].op = "lifi_quote"

\* C12 witness: get_multichain_quote has returned the summary of a quote that
\* carries a Solana transaction request a signer could have been given.
C12_Witness ==
    \E t \in Tasks :
        /\ Done(t, "get_multichain_quote") /\ IsOk(result[t])
        /\ inv[t].quote.kind = "solana" /\ IsOk(DecodeTransaction(inv[t].quote.data))

\* C13: multichain_swap hands nothing to a signer unless the quote carries a
\* transaction request: when the quote request fails it returns Err, when
\* the quote has no transaction request it returns Err("No transaction
\* request"), and in both cases no transaction reaches a signer method.
C13_NothingWithoutRequest ==
    \A t \in Tasks :
        Done(t, "multichain_swap") =>
            /\ inv[t].quote.kind = "fail" =>
                  result[t].kind = "Err" /\ subs[t] = <<>> /\ spawned[t] = 0
            /\ inv[t].quote.kind = "none" =>
                  /\ result[t] = Err(M("No transaction request"))
                  /\ subs[t] = <<>> /\ spawned[t] = 0

\* C13 witness: multichain_swap has received a quote without a transaction
\* request and has returned.
C13_Witness ==
    \E t \in Tasks :
        /\ Done(t, "multichain_swap") /\ inv[t].quote.kind = "none"
        /\ calls[t] = <<Call("lifi_quote", TRUE)>>

\* The aggregator has been asked for a quote by the invocation of t.
QuoteRequested(t) ==
    /\ pc[t] = "done" /\ inv[t].tool \in {"get_multichain_quote", "multichain_swap"}
    /\ calls[t] # <<>> /\ calls[t][1].op = "lifi_quote"

\* C14: in get_multichain_quote and multichain_swap the address sent to the
\* aggregator for a side is the signer's Solana pubkey exactly when that
\* side's chain is "sol" and the signer's EVM address for every other chain
\* string; each side is chosen by its own chain.
C14_AddressByChain ==
    \A t \in Tasks :
        QuoteRequested(t) =>
            LET o == Last(active[t])
            IN  /\ inv[t].from_chain = "sol" => inv[t].from_address = pubkey(o).val
                /\ inv[t].from_chain # "sol" => inv[t].from_address = address(o).val
                /\ inv[t].to_chain = "sol" => inv[t].to_address = pubkey(o).val
                /\ inv[t].to_chain # "sol" => inv[t].to_address = address(o).val

\* C14 witness: a quote has been requested from Solana to a chain that is not
\* among the listed ones.
C14_Witness ==
    \E t \in Tasks :
        /\ QuoteRequested(t)
        /\ inv[t].from_chain = "sol" /\ inv[t].to_chain = "eth"
        /\ inv[t].from_address # inv[t].to_address

\* C15: perform_jupiter_swap requires both mints to be valid Solana public
\* keys: when input_mint or output_mint is none, the invocation returns Err
\* and no transaction has been handed to the signer.
C15_MintsValidated ==
    \A t \in Tasks :
        (Done(t, "perform_jupiter_swap") /\ InScope(t)
            /\ ~(IsPubkey(inv[t].input_mint) /\ IsPubkey(inv[t].output_mint))) =>
                result[t].kind = "Err" /\ subs[t] = <<>>

\* C16: create_trade_transaction returns Ok(transaction) exactly when the
\* Jupiter quote request and the building of the swap transaction both
\* succeed; the swap instructions are requested only after the quote was
\* fetched successfully; a quote failure comes back as an error that starts
\* with "Failed to fetch quote: ", a build failure as one that starts with
\* "Failed to swap: "; and it hands nothing to a signer.
C16_TradeTransaction ==
    \A t \in Tasks :
        LET tr == inv[t].trade
        IN  tr.res # NoResult =>
              /\ IsOk(tr.res) <=> tr.met = TradeOutcome("ok", "ok", "ok")
              /\ IsOk(tr.res) => tr.res.val.what = "swap"
              /\ \A k \in 1..Len(tr.calls) :
                    tr.calls[k].op = "jupiter_swap" =>
                        k > 1 /\ tr.calls[1] = Call("jupiter_quote", TRUE)
              /\ tr.met.jq = "fail" =>
                    tr.res.kind = "Err" /\ tr.res.val.fmt = "Failed to fetch quote: {}"
              /\ (tr.met.jq = "ok" /\ ~IsOk(tr.res)) =>
                    tr.res.kind = "Err" /\ tr.res.val.fmt = "Failed to swap: {}"
              /\ ~IsOk(tr.res) => Len(subs[t]) = 1 /\ spawned[t] = 1
              /\ (IsOk(tr.res) /\ worker[t].st = "running") => Len(subs[t]) = 1

\* C16 witness: the quote was fetched, the swap instructions came back and
\* one of them could not be converted.
C16_Witness ==
    \E t \in Tasks :
        /\ inv[t].trade.met = TradeOutcome("ok", "badix", "ok")
        /\ pc[t] = "done" /\ result[t] = inv[t].trade.res

\* Jupiter has been asked for a quote or for swap instructions by t.
JupiterAsked(t) ==
    \E k \in 1..Len(calls[t]) : calls[t][k].op \in {"jupiter_quote", "jupiter_swap"}

\* C17: in perform_jupiter_swap the token-account transaction is submitted,
\* and its submission has succeeded, before the Jupiter quote is fetched and
\* before the swap transaction is built or submitted; when the first
\* submission fails no quote is fetched and no swap transaction submitted;
\* the second worker starts only when the first has finished.
C17_StepsOrdered ==
    \A t \in Tasks :
        inv[t].tool = "perform_jupiter_swap" =>
            /\ (JupiterAsked(t) \/ spawned[t] = 2 \/ inv[t].trade.res # NoResult) =>
                  /\ Len(subs[t]) >= 1
                  /\ subs[t][1].tx.tx.what \in {"ata_create", "ata_empty"}
                  /\ IsOk(subs[t][1].res)
                  /\ \A k \in 1..Len(calls[t]) :
                        calls[t][k].op \in {"jupiter_quote", "jupiter_swap"} =>
                            k > Len(subs[t][1].calls)
            /\ (Len(subs[t]) >= 1 /\ ~IsOk(subs[t][1].res)) =>
                  ~JupiterAsked(t) /\ Len(subs[t]) = 1 /\ spawned[t] = 1
            /\ (spawned[t] = 2 /\ worker[t].st = "running") => Len(subs[t]) = 1
            /\ Len(subs[t]) = 2 => subs[t][2].tx.tx.what = "swap"

\* C17 witness: the submission of the token-account transaction has failed
\* and perform_jupiter_swap has returned its error.
C17_Witness ==
    \E t \in Tasks :
        /\ Done(t, "perform_jupiter_swap") /\ Len(subs[t]) = 1
        /\ subs[t][1].res.kind = "Err" /\ result[t] = subs[t][1].res

\* multichain_swap of t has returned and its quote carried a transaction request.
SwapWithRequest(t) ==
    Done(t, "multichain_swap") /\ inv[t].quote.kind \in {"solana", "evm"}

\* The one call of a signer method by multichain_swap of t: the method the
\* transaction request asks for, on the request's transaction, and the
\* tool's result is what the call returned (a call that panics surfaces as
\* a panic or as an error).
DispatchedOnce(t) ==
    /\ Len(subs[t]) = 1
    /\ subs[t][1].signer = Last(active[t])
    /\ subs[t][1].method = (IF inv[t].quote.kind = "solana"
                            THEN "encoded_solana" ELSE "json_evm")
    /\ inv[t].quote.kind = "solana" => subs[t][1].tx = inv[t].quote.data
    /\ \/ result[t] = subs[t][1].res
       \/ subs[t][1].res.kind = "Panic" /\ result[t].kind \in {"Panic", "Err"}

\* C18 as stated: multichain_swap hands a quote's transaction request to
\* exactly one signer method, exactly once, chosen by the request alone, and
\* returns that call's result.
C18_DispatchExactlyOnce ==
    \A t \in Tasks : SwapWithRequest(t) => DispatchedOnce(t)

\* C18 amended: as stated, except that an EVM transaction request that cannot
\* be put into JSON-RPC form reaches no signer method and the tool returns Err.
C18_DispatchOnceIfConvertible ==
    \A t \in Tasks :
        SwapWithRequest(t) =>
            IF inv[t].quote.kind = "evm" /\ ~inv[t].quote.json
            THEN subs[t] = <<>> /\ result[t].kind = "Err"
            ELSE DispatchedOnce(t)

\* C18 witness: a swap from Solana whose quote carries an EVM transaction
\* request has been handed to the EVM method.
C18_Witness ==
    \E t \in Tasks :
        /\ SwapWithRequest(t) /\ inv[t].from_chain = "sol"
        /\ inv[t].quote.kind = "evm" /\ inv[t].quote.json
        /\ Len(subs[t]) = 1 /\ subs[t][1].method = "json_evm"

\* The message of the default of method m.
NotSupported(m) ==
    IF m \in {"solana", "encoded_solana"}
    THEN Err(M("Solana transactions not supported by this signer"))
    ELSE Err(M("EVM transactions not supported by this signer"))

\* C19: a signer backend that does not implement a method gets the trait's
\* default: the two Solana methods return Err("Solana transactions not
\* supported by this signer"), the two EVM methods Err("EVM transactions not
\* supported by this signer"), and no external call is made for the
\* transaction.
C19_DefaultsFailUniformly ==
    \A t \in Tasks :
        \A k \in 1..Len(subs[t]) :
            subs[t][k].method \notin Overrides(subs[t][k].signer) =>
                /\ subs[t][k].res = NotSupported(subs[t][k].method)
                /\ subs[t][k].calls = <<>>
                /\ Done(t, "sign_and_send") =>
                      calls[t] = <<>> /\ result[t] = subs[t][k].res

\* C19 witness: the encoded Solana method has been called on a backend that
\* implements the EVM methods only.
C19_Witness ==
    \E t \in Tasks :
        /\ Done(t, "sign_and_send") /\ Len(subs[t]) = 1
        /\ subs[t][1].method = "encoded_solana"
        /\ Overrides(subs[t][1].signer) = {"address", "evm", "json_evm"}
        /\ result[t].kind = "Err"

====
